---- MODULE Spec2Model ----
(***************************************************************************)
(* A model of src/option.ts: the OptionType class, the Some / None / from  *)
(* constructors and the static functions safe, all and any.                *)
(*                                                                         *)
(* Instances live in a heap (a sequence of cells); the index of a cell is  *)
(* the identity of the instance, so "the very same instance" is equality   *)
(* of indices.  heap[1] is the None singleton built at module load.        *)
(***************************************************************************)
EXTENDS Integers, Sequences, FiniteSets, TLC

VARIABLES heap, arrays, last, promises, reactions, jobs

vars == <<heap, arrays, last, promises, reactions, jobs>>

(***************************************************************************)
(* Bounds of the model.                                                    *)
(***************************************************************************)
MaxHeap == 3
MaxAggHeap == 4
MaxArgs == 2
MaxPromises == 3

(***************************************************************************)
(* JavaScript values.  Every value is a record [k, n]: k is the kind and n *)
(* tells values of one kind apart (a number's value, a string's number, an *)
(* object's identity, the index of an instance, an array or a promise).    *)
(***************************************************************************)
Undefined == [k |-> "undefined", n |-> 0]
Null == [k |-> "null", n |-> 0]
NaN == [k |-> "nan", n |-> 0]
Num(i) == [k |-> "number", n |-> i]
Bool(b) == [k |-> "boolean", n |-> IF b THEN 1 ELSE 0]
Str(i) == [k |-> "string", n |-> i]
Obj(i) == [k |-> "object", n |-> i]
Opt(i) == [k |-> "option", n |-> i]
Arr(i) == [k |-> "array", n |-> i]
Prom(i) == [k |-> "promise", n |-> i]

\* Str(0) is the empty string, Str(1) is "Hello World" of the safe example.
EmptyStr == Str(0)
HelloWorld == Str(1)

\* The === operator: NaN is not identical to anything, itself included;
\* primitives compare by value and references by identity.
StrictEq(a, b) == a # NaN /\ b # NaN /\ a = b

\* JavaScript truthiness (ToBoolean): what if (v) tests.
Truthy(v) == ~(v \in {Undefined, Null, NaN, Num(0), Bool(FALSE), EmptyStr})

(***************************************************************************)
(* Exceptions and the outcome of a call.                                   *)
(***************************************************************************)
NoExc == [kind |-> "none", msg |-> ""]
\* new Error(msg)
Error(msg) == [kind |-> "Error", msg |-> msg]
\* the engine's TypeError (a property read of null or undefined, a strict-mode
\* write to a frozen object)
TypeError == [kind |-> "TypeError", msg |-> ""]
\* a value thrown by a caller-supplied function
Thrown == [kind |-> "thrown", msg |-> ""]

\* Result values of ./result (Ok / Err), as far as okOr and okOrElse build them.
NoRes == [tag |-> "none", val |-> Undefined]
Ok(v) == [tag |-> "Ok", val |-> v]
Err(e) == [tag |-> "Err", val |-> e]
ResultValue == [k |-> "result", n |-> 0]

\* A call that returns v, having invoked f fc times and the default thunk dc times.
Returns(h, v, fc, dc) ==
    [ret |-> v, thrown |-> NoExc, heap |-> h, fcalls |-> fc, dcalls |-> dc, res |-> NoRes]
\* A call that returns a Result.
ReturnsRes(h, r, fc, dc) ==
    [ret |-> ResultValue, thrown |-> NoExc, heap |-> h, fcalls |-> fc, dcalls |-> dc, res |-> r]
\* A call that throws e.
Throws(h, e, fc, dc) ==
    [ret |-> Undefined, thrown |-> e, heap |-> h, fcalls |-> fc, dcalls |-> dc, res |-> NoRes]

(***************************************************************************)
(* Caller-supplied functions.  A function is a descriptor of what one call *)
(* of it does; Call gives the outcome of calling it with args.             *)
(***************************************************************************)
Identity == [kind |-> "identity", val |-> Undefined]
Const(v) == [kind |-> "const", val |-> v]
Thrower(v) == [kind |-> "throw", val |-> v]
MightThrow == [kind |-> "mightThrow", val |-> HelloWorld]
NoFn == [kind |-> "none", val |-> Undefined]

Arg1(args) == IF Len(args) >= 1 THEN args[1] ELSE Undefined

Call(fn, args) ==
    CASE fn.kind = "identity" -> [threw |-> FALSE, val |-> Arg1(args)]
      [] fn.kind = "const" -> [threw |-> FALSE, val |-> fn.val]
      [] fn.kind = "throw" -> [threw |-> TRUE, val |-> fn.val]
      \* mightThrow(throws): if (throws) tests the truthiness of the argument
      [] fn.kind = "mightThrow" ->
            IF Truthy(Arg1(args))
            THEN [threw |-> TRUE, val |-> Obj(0)]
            ELSE [threw |-> FALSE, val |-> fn.val]
      \* calling a value that is no function is a TypeError
      [] OTHER -> [threw |-> TRUE, val |-> Obj(0)]

(***************************************************************************)
(* class OptionType                                                        *)
(***************************************************************************)
\* constructor(val, some): the two fields are set and the instance is frozen.
\* (OptionTypeUnfrozen: the bug of leaving out Object.freeze(this))
OptionTypeUnfrozen(h, val, some) ==
    Append(h, [is |-> some, val |-> val, frozen |-> FALSE])
OptionType(h, val, some) ==
    Append(h, [is |-> some, val |-> val, frozen |-> TRUE])

\* export const None = new OptionType(undefined, false): the first instance.
None == 1
InitialHeap == OptionType(<<>>, Undefined, FALSE)

\* Some(val) = new OptionType(val, true); the new instance is the last cell.
Some(h, val) == OptionType(h, val, TRUE)

\* cmp instanceof OptionType
InstanceOfOptionType(cmp) == cmp.k = "option"

\* cmp[Is] and cmp[Val] for an arbitrary cmp: a TypeError on null and undefined,
\* the field of an Option, undefined on anything else.
GetIs(h, cmp) ==
    IF cmp \in {Undefined, Null} THEN [threw |-> TRUE, val |-> Undefined]
    ELSE IF cmp.k = "option" THEN [threw |-> FALSE, val |-> Bool(h[cmp.n].is)]
    ELSE [threw |-> FALSE, val |-> Undefined]
GetVal(h, cmp) ==
    IF cmp \in {Undefined, Null} THEN [threw |-> TRUE, val |-> Undefined]
    ELSE IF cmp.k = "option" THEN [threw |-> FALSE, val |-> h[cmp.n].val]
    ELSE [threw |-> FALSE, val |-> Undefined]

\* is(cmp): cmp instanceof OptionType && this[Is] === cmp[Is]
is(h, this, cmp) ==
    IF ~InstanceOfOptionType(cmp) THEN Returns(h, Bool(FALSE), 0, 0)
    ELSE Returns(h, Bool(StrictEq(Bool(h[this].is), GetIs(h, cmp).val)), 0, 0)

\* into(): this[Is] ? this[Val] : null
into(h, this) == Returns(h, IF h[this].is THEN h[this].val ELSE Null, 0, 0)

\* eq(cmp): this[Is] === cmp[Is] && this[Val] === cmp[Val]
\* (eqDiscriminantOnly: the bug of comparing the discriminants alone, as is does)
eqDiscriminantOnly(h, this, cmp) ==
    IF GetIs(h, cmp).threw THEN Throws(h, TypeError, 0, 0)
    ELSE Returns(h, Bool(StrictEq(Bool(h[this].is), GetIs(h, cmp).val)), 0, 0)
eq(h, this, cmp) ==
    IF GetIs(h, cmp).threw THEN Throws(h, TypeError, 0, 0)
    ELSE IF ~StrictEq(Bool(h[this].is), GetIs(h, cmp).val)
    THEN Returns(h, Bool(FALSE), 0, 0)
    ELSE Returns(h, Bool(StrictEq(h[this].val, GetVal(h, cmp).val)), 0, 0)

\* neq(cmp): this[Is] !== cmp[Is] || this[Val] !== cmp[Val]
neq(h, this, cmp) ==
    IF GetIs(h, cmp).threw THEN Throws(h, TypeError, 0, 0)
    ELSE IF ~StrictEq(Bool(h[this].is), GetIs(h, cmp).val)
    THEN Returns(h, Bool(TRUE), 0, 0)
    ELSE Returns(h, Bool(~StrictEq(h[this].val, GetVal(h, cmp).val)), 0, 0)

isSome(h, this) == Returns(h, Bool(h[this].is), 0, 0)
isNone(h, this) == Returns(h, Bool(~h[this].is), 0, 0)

\* expect(msg): the payload, or throw new Error(msg)
\* (expectSilent: the bug of returning the field without the check)
expectSilent(h, this, msg) == Returns(h, h[this].val, 0, 0)
expect(h, this, msg) ==
    IF h[this].is THEN Returns(h, h[this].val, 0, 0)
    ELSE Throws(h, Error(msg), 0, 0)

\* unwrap(): this.expect("Failed to unwrap Option (found None)")
UnwrapMsg == "Failed to unwrap Option (found None)"
unwrap(h, this) == expect(h, this, UnwrapMsg)

\* unwrapOr(def): this[Is] ? this[Val] : def
unwrapOr(h, this, def) == Returns(h, IF h[this].is THEN h[this].val ELSE def, 0, 0)

\* unwrapOrElse(f): this[Is] ? this[Val] : f()
unwrapOrElse(h, this, f) ==
    IF h[this].is THEN Returns(h, h[this].val, 0, 0)
    ELSE IF Call(f, <<>>).threw THEN Throws(h, Thrown, 1, 0)
    ELSE Returns(h, Call(f, <<>>).val, 1, 0)

\* unwrapUnchecked(): this[Val]
unwrapUnchecked(h, this) == Returns(h, h[this].val, 0, 0)

\* or(optb): this[Is] ? this : optb
or(h, this, optb) == Returns(h, IF h[this].is THEN Opt(this) ELSE optb, 0, 0)

\* orElse(f): this[Is] ? this : f()
orElse(h, this, f) ==
    IF h[this].is THEN Returns(h, Opt(this), 0, 0)
    ELSE IF Call(f, <<>>).threw THEN Throws(h, Thrown, 1, 0)
    ELSE Returns(h, Call(f, <<>>).val, 1, 0)

\* and(optb): this[Is] ? optb : None
and(h, this, optb) == Returns(h, IF h[this].is THEN optb ELSE Opt(None), 0, 0)

\* andThen(f): this[Is] ? f(this[Val]) : None
\* (andThenEager: the bug of calling f before the discriminant is tested)
andThenEager(h, this, f) ==
    IF Call(f, <<h[this].val>>).threw THEN Throws(h, Thrown, 1, 0)
    ELSE Returns(h, IF h[this].is THEN Call(f, <<h[this].val>>).val ELSE Opt(None), 1, 0)
andThen(h, this, f) ==
    IF ~h[this].is THEN Returns(h, Opt(None), 0, 0)
    ELSE IF Call(f, <<h[this].val>>).threw THEN Throws(h, Thrown, 1, 0)
    ELSE Returns(h, Call(f, <<h[this].val>>).val, 1, 0)

\* map(f): this[Is] ? new OptionType(f(this[Val]), true) : None
map(h, this, f) ==
    IF ~h[this].is THEN Returns(h, Opt(None), 0, 0)
    ELSE IF Call(f, <<h[this].val>>).threw THEN Throws(h, Thrown, 1, 0)
    ELSE Returns(Some(h, Call(f, <<h[this].val>>).val), Opt(Len(h) + 1), 1, 0)

\* mapOr(def, f): this[Is] ? f(this[Val]) : def
mapOr(h, this, def, f) ==
    IF ~h[this].is THEN Returns(h, def, 0, 0)
    ELSE IF Call(f, <<h[this].val>>).threw THEN Throws(h, Thrown, 1, 0)
    ELSE Returns(h, Call(f, <<h[this].val>>).val, 1, 0)

\* mapOrElse(def, f): this[Is] ? f(this[Val]) : def()
mapOrElse(h, this, def, f) ==
    IF ~h[this].is
    THEN IF Call(def, <<>>).threw THEN Throws(h, Thrown, 0, 1)
         ELSE Returns(h, Call(def, <<>>).val, 0, 1)
    ELSE IF Call(f, <<h[this].val>>).threw THEN Throws(h, Thrown, 1, 0)
    ELSE Returns(h, Call(f, <<h[this].val>>).val, 1, 0)

\* okOr(err): this[Is] ? Ok(this[Val]) : Err(err)
okOr(h, this, err) == ReturnsRes(h, IF h[this].is THEN Ok(h[this].val) ELSE Err(err), 0, 0)

\* okOrElse(f): this[Is] ? Ok(this[Val]) : Err(f())
okOrElse(h, this, f) ==
    IF h[this].is THEN ReturnsRes(h, Ok(h[this].val), 0, 0)
    ELSE IF Call(f, <<>>).threw THEN Throws(h, Thrown, 1, 0)
    ELSE ReturnsRes(h, Err(Call(f, <<>>).val), 1, 0)

(***************************************************************************)
(* The static functions of Option.                                         *)
(***************************************************************************)
\* Option.is(val): val instanceof OptionType
OptionIs(h, val) == Returns(h, Bool(InstanceOfOptionType(val)), 0, 0)

\* from(val): val === undefined || val === null || val !== val ? None : Some(val)
\* (fromFalsy: the bug of testing the truthiness of val instead)
fromFalsy(h, val) ==
    IF ~Truthy(val) THEN Returns(h, Opt(None), 0, 0)
    ELSE Returns(Some(h, val), Opt(Len(h) + 1), 0, 0)
from(h, val) ==
    IF StrictEq(val, Undefined) \/ StrictEq(val, Null) \/ ~StrictEq(val, val)
    THEN Returns(h, Opt(None), 0, 0)
    ELSE Returns(Some(h, val), Opt(Len(h) + 1), 0, 0)

\* Option(val): from(val)
Option(h, val) == from(h, val)

\* fn instanceof Promise
InstanceOfPromise(fn) == fn.kind = "promise"

\* safe(fn, ...args), fn a function: try { return Some(fn(...args)) } catch { return None }
\* (safeFromResult: the bug of wrapping the result with from instead of Some)
safeFromResult(h, fn, args) ==
    IF Call(fn, args).threw THEN Returns(h, Opt(None), 1, 0)
    ELSE [from(h, Call(fn, args).val) EXCEPT !.fcalls = 1]
safe(h, fn, args) ==
    IF Call(fn, args).threw THEN Returns(h, Opt(None), 1, 0)
    ELSE Returns(Some(h, Call(fn, args).val), Opt(Len(h) + 1), 1, 0)

\* The loop of all: the payloads of options[i..] pushed onto some, or none at
\* the first None.
\* (allLoopUnshift: the bug of adding each payload at the front of some)
RECURSIVE allLoopUnshift(_, _, _, _)
allLoopUnshift(h, options, i, some) ==
    IF i > Len(options) THEN [none |-> FALSE, some |-> some]
    ELSE IF isSome(h, options[i].n).ret = Bool(TRUE)
    THEN allLoopUnshift(h, options, i + 1,
                        <<unwrapUnchecked(h, options[i].n).ret>> \o some)
    ELSE [none |-> TRUE, some |-> <<>>]
RECURSIVE allLoop(_, _, _, _)
allLoop(h, options, i, some) ==
    IF i > Len(options) THEN [none |-> FALSE, some |-> some]
    ELSE IF isSome(h, options[i].n).ret = Bool(TRUE)
    THEN allLoop(h, options, i + 1, Append(some, unwrapUnchecked(h, options[i].n).ret))
    ELSE [none |-> TRUE, some |-> <<>>]

\* all(...options): None at the first None, else Some(some), some a new array.
all(h, a, options) ==
    LET r == allLoop(h, options, 1, <<>>) IN
    IF r.none
    THEN [out |-> Returns(h, Opt(None), 0, 0), arrays |-> a]
    ELSE [out |-> Returns(Some(h, Arr(Len(a) + 1)), Opt(Len(h) + 1), 0, 0),
          arrays |-> Append(a, r.some)]

\* any(...options): the first option that is Some, else None.
\* (anyLoopLast: the bug of not returning at the first Some, so the last one wins)
RECURSIVE anyLoopLast(_, _, _)
anyLoopLast(h, options, i) ==
    IF i > Len(options) THEN Opt(None)
    ELSE IF isSome(h, options[i].n).ret = Bool(TRUE)
            /\ anyLoopLast(h, options, i + 1) = Opt(None)
    THEN options[i]
    ELSE anyLoopLast(h, options, i + 1)
RECURSIVE anyLoop(_, _, _)
anyLoop(h, options, i) ==
    IF i > Len(options) THEN Opt(None)
    ELSE IF isSome(h, options[i].n).ret = Bool(TRUE) THEN options[i]
    ELSE anyLoop(h, options, i + 1)

any(h, options) == Returns(h, anyLoop(h, options, 1), 0, 0)

(***************************************************************************)
(* Promises, as far as safe(promise) uses them: promise.then(onFulfilled,  *)
(* onRejected) makes a new promise and registers a reaction; when the      *)
(* promise settles the reaction becomes a job of the microtask queue, and  *)
(* the job runs the handler and settles the new promise.                   *)
(***************************************************************************)
PromiseOf(p) == [kind |-> "promise", val |-> Prom(p)]

\* the handlers safe passes to then: (value) => Some(value) and () => None
\* (onRejectedRethrow: the bug of a rejection handler that throws again)
onFulfilled(h, value) == Returns(Some(h, value), Opt(Len(h) + 1), 0, 0)
onRejectedRethrow(h, reason) == Throws(h, Thrown, 0, 0)
onRejected(h, reason) == Returns(h, Opt(None), 0, 0)

\* The jobs of the reactions registered on p, in registration order.
RECURSIVE JobsOf(_, _, _, _)
JobsOf(rs, p, state, value) ==
    IF rs = <<>> THEN <<>>
    ELSE IF Head(rs).on = p
    THEN <<[target |-> Head(rs).target, state |-> state, value |-> value]>>
             \o JobsOf(Tail(rs), p, state, value)
    ELSE JobsOf(Tail(rs), p, state, value)

(***************************************************************************)
(* The state.  last is the latest call a client made: the operation, its   *)
(* receiver (0 for a static function), its inputs and its outcome.         *)
(***************************************************************************)
NoCall ==
    [op |-> "none", this |-> 0, args |-> <<>>, f |-> NoFn, d |-> NoFn, msg |-> "",
     ret |-> Undefined, thrown |-> NoExc, fcalls |-> 0, dcalls |-> 0, res |-> NoRes]

Record(op, this, args, f, d, msg, o) ==
    [op |-> op, this |-> this, args |-> args, f |-> f, d |-> d, msg |-> msg,
     ret |-> o.ret, thrown |-> o.thrown, fcalls |-> o.fcalls, dcalls |-> o.dcalls,
     res |-> o.res]

Init ==
    /\ heap = InitialHeap
    /\ arrays = <<>>
    /\ last = NoCall
    /\ promises = <<>>
    /\ reactions = <<>>
    /\ jobs = <<>>

\* A synchronous call with outcome o; bound caps the instances ever made.
Invoke(op, this, args, f, d, msg, outcome, bound) ==
    \E o \in {outcome} :
        /\ Len(o.heap) <= bound
        /\ heap' = o.heap
        /\ last' = Record(op, this, args, f, d, msg, o)
        /\ UNCHANGED <<arrays, promises, reactions, jobs>>

(***************************************************************************)
(* Inputs.                                                                 *)
(***************************************************************************)
\* the absence-like values, the falsy values that are not absent, two objects
Absent == {Undefined, Null, NaN}
Falsy == {Num(0), Bool(FALSE), EmptyStr}
Prims == Absent \cup Falsy \cup {Obj(1), Obj(2)}
Payloads == Absent \cup {Obj(1), Obj(2)}
\* an object made for the call, distinct from every object made before
FreshObject == {Obj(Len(heap) + 2)}
Refs == {Opt(i) : i \in DOMAIN heap}
\* arguments that are no Option: null, undefined, a primitive, an object
NonOptions == {Undefined, Null, Num(0), Obj(1)}
Msgs == {"Is empty", ""}
Defaults == {Obj(2)}
Fns == {Identity, Const(Opt(None)), Thrower(Obj(2))}
Thunks == {Const(Opt(None)), Const(Obj(2)), Thrower(Obj(2))}

(***************************************************************************)
(* One action per exported function and per method.                        *)
(***************************************************************************)
SomeCall(vals, bound) ==
    \E v \in vals :
        Invoke("Some", 0, <<v>>, NoFn, NoFn, "",
               Returns(Some(heap, v), Opt(Len(heap) + 1), 0, 0), bound)

FromCall(vals, bound) ==
    \E v \in vals : Invoke("from", 0, <<v>>, NoFn, NoFn, "", from(heap, v), bound)

OptionCall(vals, bound) ==
    \E v \in vals : Invoke("Option", 0, <<v>>, NoFn, NoFn, "", Option(heap, v), bound)

OptionIsCall ==
    \E v \in Refs \cup NonOptions :
        Invoke("Option.is", 0, <<v>>, NoFn, NoFn, "", OptionIs(heap, v), MaxHeap)

IsCall(cmps) ==
    \E this \in DOMAIN heap, cmp \in cmps :
        Invoke("is", this, <<cmp>>, NoFn, NoFn, "", is(heap, this, cmp), MaxHeap)

EqCall(cmps) ==
    \E this \in DOMAIN heap, cmp \in cmps :
        Invoke("eq", this, <<cmp>>, NoFn, NoFn, "", eq(heap, this, cmp), MaxHeap)

NeqCall ==
    \E this \in DOMAIN heap, cmp \in Refs :
        Invoke("neq", this, <<cmp>>, NoFn, NoFn, "", neq(heap, this, cmp), MaxHeap)

IntoCall ==
    \E this \in DOMAIN heap :
        Invoke("into", this, <<>>, NoFn, NoFn, "", into(heap, this), MaxHeap)

IsSomeCall ==
    \E this \in DOMAIN heap :
        Invoke("isSome", this, <<>>, NoFn, NoFn, "", isSome(heap, this), MaxHeap)

IsNoneCall ==
    \E this \in DOMAIN heap :
        Invoke("isNone", this, <<>>, NoFn, NoFn, "", isNone(heap, this), MaxHeap)

ExpectCall ==
    \E this \in DOMAIN heap, msg \in Msgs :
        Invoke("expect", this, <<>>, NoFn, NoFn, msg, expect(heap, this, msg), MaxHeap)

UnwrapCall ==
    \E this \in DOMAIN heap :
        Invoke("unwrap", this, <<>>, NoFn, NoFn, "", unwrap(heap, this), MaxHeap)

UnwrapOrCall ==
    \E this \in DOMAIN heap, def \in Defaults :
        Invoke("unwrapOr", this, <<def>>, NoFn, NoFn, "", unwrapOr(heap, this, def), MaxHeap)

UnwrapOrElseCall ==
    \E this \in DOMAIN heap, f \in Thunks :
        Invoke("unwrapOrElse", this, <<>>, f, NoFn, "", unwrapOrElse(heap, this, f), MaxHeap)

UnwrapUncheckedCall ==
    \E this \in DOMAIN heap :
        Invoke("unwrapUnchecked", this, <<>>, NoFn, NoFn, "",
               unwrapUnchecked(heap, this), MaxHeap)

OrCall ==
    \E this \in DOMAIN heap, optb \in Refs :
        Invoke("or", this, <<optb>>, NoFn, NoFn, "", or(heap, this, optb), MaxHeap)

OrElseCall ==
    \E this \in DOMAIN heap, f \in Thunks :
        Invoke("orElse", this, <<>>, f, NoFn, "", orElse(heap, this, f), MaxHeap)

AndCall ==
    \E this \in DOMAIN heap, optb \in Refs :
        Invoke("and", this, <<optb>>, NoFn, NoFn, "", and(heap, this, optb), MaxHeap)

AndThenCall ==
    \E this \in DOMAIN heap, f \in Fns :
        Invoke("andThen", this, <<>>, f, NoFn, "", andThen(heap, this, f), MaxHeap)

MapCall(fns) ==
    \E this \in DOMAIN heap, f \in fns :
        Invoke("map", this, <<>>, f, NoFn, "", map(heap, this, f), MaxHeap)

MapOrCall ==
    \E this \in DOMAIN heap, def \in Defaults, f \in Fns :
        Invoke("mapOr", this, <<def>>, f, NoFn, "", mapOr(heap, this, def, f), MaxHeap)

MapOrElseCall ==
    \E this \in DOMAIN heap, def \in Thunks, f \in Fns :
        Invoke("mapOrElse", this, <<>>, f, def, "", mapOrElse(heap, this, def, f), MaxHeap)

OkOrCall ==
    \E this \in DOMAIN heap, err \in Defaults :
        Invoke("okOr", this, <<err>>, NoFn, NoFn, "", okOr(heap, this, err), MaxHeap)

OkOrElseCall ==
    \E this \in DOMAIN heap, f \in Thunks :
        Invoke("okOrElse", this, <<>>, f, NoFn, "", okOrElse(heap, this, f), MaxHeap)

\* then(onFulfilled, onRejected) on promise p: the new promise is pending; its
\* reaction is registered while p is pending and queued as a job once p is settled.
Then(p) ==
    /\ promises' = Append(promises, [state |-> "pending", value |-> Undefined, src |-> p])
    /\ IF promises[p].state = "pending"
       THEN /\ reactions' = Append(reactions, [on |-> p, target |-> Len(promises) + 1])
            /\ UNCHANGED jobs
       ELSE /\ jobs' = Append(jobs, [target |-> Len(promises) + 1,
                                     state |-> promises[p].state,
                                     value |-> promises[p].value])
            /\ UNCHANGED reactions

\* Promise p settles: its reactions become jobs, in registration order.
Settle(p, state, value) ==
    /\ promises' = [promises EXCEPT ![p].state = state, ![p].value = value]
    /\ reactions' = SelectSeq(reactions, LAMBDA r : r.on # p)
    /\ UNCHANGED last

\* safe(fn, ...args): fn.then(Some, () => None) when fn is a Promise, else the
\* captured call of fn.
SafeCall(fns, argss, bound) ==
    \E fn \in fns, args \in argss :
        IF InstanceOfPromise(fn)
        THEN /\ Len(promises) < MaxPromises
             /\ Then(fn.val.n)
             /\ last' = Record("safe", 0, <<fn.val>>, NoFn, NoFn, "",
                               Returns(heap, Prom(Len(promises) + 1), 0, 0))
             /\ UNCHANGED <<heap, arrays>>
        ELSE Invoke("safe", 0, args, fn, NoFn, "", safe(heap, fn, args), bound)

\* The argument lists of all and any: up to MaxArgs instances (any instances,
\* or those whose payload is no array), or one instance.
ArgLists == UNION {[1..n -> Refs] : n \in 0..MaxArgs}
PlainRefs == {Opt(i) : i \in {j \in DOMAIN heap : heap[j].val.k # "array"}}
PlainArgLists == UNION {[1..n -> PlainRefs] : n \in 0..MaxArgs}
Singletons == {<<r>> : r \in Refs}

AllCall(lists, bound) ==
    \E options \in lists :
        \E r \in {all(heap, arrays, options)} :
        /\ Len(r.out.heap) <= bound
        /\ heap' = r.out.heap
        /\ arrays' = r.arrays
        /\ last' = Record("all", 0, options, NoFn, NoFn, "", r.out)
        /\ UNCHANGED <<promises, reactions, jobs>>

AnyCall(lists, bound) ==
    \E options \in lists :
        Invoke("any", 0, options, NoFn, NoFn, "", any(heap, options), bound)

\* A client's attempt to assign a field of an instance: a frozen instance keeps
\* its fields, and the assignment is silent in sloppy code and a TypeError in
\* strict code.
Assign(h, i, field, v) ==
    IF h[i].frozen THEN h
    ELSE IF field = "is" THEN [h EXCEPT ![i].is = (v = Bool(TRUE))]
    ELSE [h EXCEPT ![i].val = v]

WriteAttempt ==
    \E i \in DOMAIN heap, field \in {"is", "val"}, v \in {Bool(TRUE), Bool(FALSE), Obj(2)},
       strict \in BOOLEAN :
        /\ heap' = Assign(heap, i, field, v)
        /\ last' = Record("write", i, <<v>>, NoFn, NoFn, field,
                          IF heap[i].frozen /\ strict
                          THEN Throws(heap, TypeError, 0, 0)
                          ELSE Returns(heap, v, 0, 0))
        /\ UNCHANGED <<arrays, promises, reactions, jobs>>

(***************************************************************************)
(* The environment of safe(promise): code outside the module creates       *)
(* promises and settles them; the engine runs the queued reaction jobs.    *)
(***************************************************************************)
Outcomes == {Undefined, NaN, Obj(1)}

NewPromise ==
    /\ Len(promises) < MaxPromises
    /\ promises' = Append(promises, [state |-> "pending", value |-> Undefined, src |-> 0])
    /\ UNCHANGED <<heap, arrays, last, reactions, jobs>>

SettlePromise ==
    \E p \in DOMAIN promises, state \in {"fulfilled", "rejected"}, v \in Outcomes :
        /\ promises[p].src = 0
        /\ promises[p].state = "pending"
        /\ Settle(p, state, v)
        /\ jobs' = jobs \o JobsOf(reactions, p, state, v)
        /\ UNCHANGED <<heap, arrays>>

\* The head job of the microtask queue: run the handler safe registered and
\* settle the promise then returned with what the handler returned or threw.
RunHandler(h, job) ==
    IF job.state = "fulfilled" THEN onFulfilled(h, job.value) ELSE onRejected(h, job.value)

ReactionJob ==
    /\ jobs # <<>>
    /\ heap' = RunHandler(heap, Head(jobs)).heap
    /\ IF RunHandler(heap, Head(jobs)).thrown = NoExc
       THEN /\ Settle(Head(jobs).target, "fulfilled", RunHandler(heap, Head(jobs)).ret)
            /\ jobs' = Tail(jobs) \o JobsOf(reactions, Head(jobs).target, "fulfilled",
                                            RunHandler(heap, Head(jobs)).ret)
       ELSE /\ Settle(Head(jobs).target, "rejected", Obj(0))
            /\ jobs' = Tail(jobs) \o JobsOf(reactions, Head(jobs).target, "rejected", Obj(0))
    /\ UNCHANGED arrays

(***************************************************************************)
(* Specifications.  Each drives the constructors and one family of         *)
(* operations from the state after module load.                            *)
(***************************************************************************)
\* construction and extraction
Next ==
    \/ SomeCall(Payloads, MaxHeap)
    \/ FromCall(Prims, MaxHeap)
    \/ OptionCall(Prims, MaxHeap)
    \/ OptionIsCall
    \/ IntoCall
    \/ IsSomeCall
    \/ IsNoneCall
    \/ ExpectCall
    \/ UnwrapCall
    \/ UnwrapOrCall
    \/ UnwrapUncheckedCall

Spec == Init /\ [][Next]_vars

\* comparison and map
NextCmp ==
    \/ SomeCall(Payloads, MaxHeap)
    \/ MapCall({Identity})
    \/ IsCall(Refs \cup NonOptions)
    \/ EqCall(Refs \cup NonOptions)
    \/ NeqCall

CmpSpec == Init /\ [][NextCmp]_vars

\* the combinators that take functions
NextLazy ==
    \/ SomeCall({Obj(1)}, MaxHeap)
    \/ UnwrapOrElseCall
    \/ OrCall
    \/ OrElseCall
    \/ AndCall
    \/ AndThenCall
    \/ MapCall(Fns)
    \/ MapOrCall
    \/ MapOrElseCall
    \/ OkOrCall
    \/ OkOrElseCall

LazySpec == Init /\ [][NextLazy]_vars

\* safe on functions
SafeFns == {Identity, MightThrow, Thrower(Obj(1)), Thrower(Undefined)}
                \cup {Const(v) : v \in Absent \cup {Obj(1)}}
SafeArgs == {<<>>, <<Bool(TRUE)>>, <<Bool(FALSE)>>, <<Obj(1)>>, <<Num(1)>>,
             <<NaN, Obj(1)>>}

NextSafe == SafeCall(SafeFns, SafeArgs, MaxHeap)

SafeSpec == Init /\ [][NextSafe]_vars

\* safe on promises
NextAsync ==
    \/ NewPromise
    \/ SettlePromise
    \/ SafeCall({PromiseOf(p) : p \in DOMAIN promises}, {<<>>}, MaxHeap)
    \/ ReactionJob

AsyncSpec == Init /\ [][NextAsync]_vars /\ WF_vars(ReactionJob)

\* all and any
NextAll ==
    \/ SomeCall(FreshObject, MaxAggHeap)
    \/ AllCall(PlainArgLists, MaxAggHeap)

AllSpec == Init /\ [][NextAll]_vars

NextAny ==
    \/ SomeCall({Obj(1), Obj(2)}, MaxAggHeap)
    \/ AnyCall(ArgLists, MaxAggHeap)

AnySpec == Init /\ [][NextAny]_vars

\* every operation, and a client's attempts to write to an instance
NextFull ==
    \/ SomeCall({Obj(1)}, MaxHeap)
    \/ FromCall({Null, Obj(1)}, MaxHeap)
    \/ OptionCall({NaN, Obj(1)}, MaxHeap)
    \/ OptionIsCall
    \/ IsCall(Refs)
    \/ EqCall(Refs)
    \/ NeqCall
    \/ IntoCall
    \/ IsSomeCall
    \/ IsNoneCall
    \/ ExpectCall
    \/ UnwrapCall
    \/ UnwrapOrCall
    \/ UnwrapOrElseCall
    \/ UnwrapUncheckedCall
    \/ OrCall
    \/ OrElseCall
    \/ AndCall
    \/ AndThenCall
    \/ MapCall(Fns)
    \/ MapOrCall
    \/ MapOrElseCall
    \/ OkOrCall
    \/ OkOrElseCall
    \/ SafeCall({MightThrow}, {<<Bool(TRUE)>>, <<Bool(FALSE)>>, <<Obj(1)>>}, MaxHeap)
    \/ AllCall(Singletons, MaxHeap)
    \/ AnyCall(Singletons, MaxHeap)
    \/ WriteAttempt

FullSpec == Init /\ [][NextFull]_vars

(***************************************************************************)
(* Properties.                                                             *)
(***************************************************************************)
\* The instance a returned reference names is a Some made by the call: not
\* the None singleton, discriminant Some, payload v.
IsSomeOf(ret, v) ==
    /\ ret.k = "option"
    /\ ret.n \in DOMAIN heap
    /\ ret.n # None
    /\ heap[ret.n].is
    /\ heap[ret.n].val = v

\* C1: Option.from(v) and Option(v) return the None singleton when v is null,
\* undefined or NaN, and a Some whose payload is exactly v for every other v,
\* the falsy values 0, false and "" included.
C1_FromContract ==
    last.op \in {"from", "Option"} =>
        /\ last.thrown = NoExc
        /\ last.args[1] \in {Undefined, Null, NaN} => last.ret = Opt(None)
        /\ last.args[1] \notin {Undefined, Null, NaN} => IsSomeOf(last.ret, last.args[1])

C1_Witness ==
    /\ last.op = "from"
    /\ last.args[1] = Num(0)
    /\ IsSomeOf(last.ret, Num(0))

\* C2 as stated: expect(msg) and unwrap() return the payload of a Some, and on
\* None fail with an UnwrapError carrying msg, resp. the fixed default message.
C2_UnwrapErrorKind ==
    last.op \in {"expect", "unwrap"} =>
        IF heap[last.this].is
        THEN last.thrown = NoExc /\ last.ret = heap[last.this].val
        ELSE /\ last.thrown.kind = "UnwrapError"
             /\ last.thrown.msg = (IF last.op = "expect" THEN last.msg ELSE UnwrapMsg)

\* C2 as amended: expect(msg) and unwrap() return the payload of a Some, and on
\* None throw a plain Error (the built-in class, no UnwrapError type) whose
\* message is msg, resp. the fixed "Failed to unwrap Option (found None)": the
\* two failures are of one kind and differ by message only.
C2_ExpectUnwrap ==
    last.op \in {"expect", "unwrap"} =>
        IF heap[last.this].is
        THEN last.thrown = NoExc /\ last.ret = heap[last.this].val
        ELSE /\ last.thrown.kind = "Error"
             /\ last.thrown.msg = (IF last.op = "expect" THEN last.msg ELSE UnwrapMsg)

C2_Witness ==
    /\ last.op = "unwrap"
    /\ last.this = None
    /\ last.thrown = Error(UnwrapMsg)

\* After x.map(v => v) returned: the outcome of (the result).eq(x).
MapIdentityReturned == last.op = "map" /\ last.f = Identity /\ last.thrown = NoExc
MapIdentityEq == eq(heap, last.ret.n, Opt(last.this)).ret

\* C3 as stated: x.map(v => v).eq(x) is true for every Option x, None and
\* Some of any payload (NaN, undefined, null, objects).
C3_MapIdentityAll == MapIdentityReturned => MapIdentityEq = Bool(TRUE)

\* C3 as amended: x.map(v => v).eq(x) is true for every Option x except a Some
\* whose payload is NaN, for which it is false.
C3_MapIdentity ==
    MapIdentityReturned =>
        (MapIdentityEq = Bool(TRUE)) = ~(heap[last.this].is /\ heap[last.this].val = NaN)

C3_Witness ==
    /\ MapIdentityReturned
    /\ heap[last.this].is
    /\ heap[last.this].val = Obj(1)
    /\ last.ret.n # last.this
    /\ MapIdentityEq = Bool(TRUE)

\* C4: safe(fn, ...args) calls fn(...args) exactly once and never throws: it
\* returns the None singleton if fn threw and else a Some whose payload is
\* exactly what fn returned, undefined, null and NaN included.
C4_SafeCapture ==
    (last.op = "safe" /\ last.f # NoFn) =>
        /\ last.thrown = NoExc
        /\ last.fcalls = 1
        /\ Call(last.f, last.args).threw => last.ret = Opt(None)
        /\ ~Call(last.f, last.args).threw => IsSomeOf(last.ret, Call(last.f, last.args).val)

C4_Witness ==
    /\ last.op = "safe"
    /\ last.f = Const(NaN)
    /\ IsSomeOf(last.ret, NaN)

\* The promises safe made, and the promise each was made from.
SafePromises == {q \in DOMAIN promises : promises[q].src # 0}
Source(q) == promises[promises[q].src]

\* q = safe(p) is never rejected, is settled only once p is, and is then
\* fulfilled with Some(v) if p fulfilled with v and with None if p rejected.
SafePromiseSettled(q) ==
    /\ promises[q].state # "rejected"
    /\ promises[q].state = "fulfilled" =>
        /\ Source(q).state # "pending"
        /\ Source(q).state = "fulfilled" => IsSomeOf(promises[q].value, Source(q).value)
        /\ Source(q).state = "rejected" => promises[q].value = Opt(None)

PromiseIds == 1..MaxPromises
IsSettledSource(q) == q \in SafePromises /\ Source(q).state # "pending"
IsFulfilled(q) == q \in SafePromises /\ promises[q].state = "fulfilled"

\* C5: q = safe(p) never rejects; once p has fulfilled with v, q eventually
\* fulfils with Some(v); once p has rejected, q eventually fulfils with None; and
\* q does not settle before p does.
C5_SafePromise ==
    /\ [](\A q \in SafePromises : SafePromiseSettled(q))
    /\ \A q \in PromiseIds : IsSettledSource(q) ~> IsFulfilled(q)

C5_Witness ==
    \E q \in SafePromises :
        /\ Source(q).state = "rejected"
        /\ promises[q].state = "fulfilled"
        /\ promises[q].value = Opt(None)

\* The payloads of the instances options names, in order.
PayloadsOf(options) == [i \in DOMAIN options |-> heap[options[i].n].val]
HasNone(options) == \E i \in DOMAIN options : ~heap[options[i].n].is

\* C6: all(o1..on) returns the None singleton if some oi is None, and else
\* (n = 0 included) a Some whose payload is a sequence of length n whose i-th
\* element is the payload of oi.
C6_All ==
    last.op = "all" =>
        /\ last.thrown = NoExc
        /\ HasNone(last.args) => last.ret = Opt(None)
        /\ ~HasNone(last.args) =>
            /\ last.ret.k = "option" /\ last.ret.n # None
            /\ heap[last.ret.n].is
            /\ heap[last.ret.n].val.k = "array"
            /\ Len(arrays[heap[last.ret.n].val.n]) = Len(last.args)
            /\ \A i \in DOMAIN last.args :
                   arrays[heap[last.ret.n].val.n][i] = heap[last.args[i].n].val

C6_Witness ==
    /\ last.op = "all"
    /\ Len(last.args) = 2
    /\ ~HasNone(last.args)
    /\ heap[last.args[1].n].val # heap[last.args[2].n].val
    /\ arrays[heap[last.ret.n].val.n] = PayloadsOf(last.args)

\* The positions of the arguments that are Some.
SomeAt(options) == {i \in DOMAIN options : heap[options[i].n].is}
Min(S) == CHOOSE i \in S : \A j \in S : i <= j

\* C7: any(o1..on) returns the first argument that is Some, the very instance
\* passed in, whatever follows it, and the None singleton exactly when no
\* argument is Some (n = 0 included).
C7_Any ==
    last.op = "any" =>
        /\ last.thrown = NoExc
        /\ SomeAt(last.args) # {} => last.ret = last.args[Min(SomeAt(last.args))]
        /\ SomeAt(last.args) = {} => last.ret = Opt(None)

C7_Witness ==
    /\ last.op = "any"
    /\ Len(last.args) = 2
    /\ SomeAt(last.args) = {1, 2}
    /\ last.args[1] # last.args[2]
    /\ heap[last.args[1].n].val = heap[last.args[2].n].val
    /\ last.ret = last.args[1]

\* The combinators that call f on a Some, and those that call it on None.
CallOnSome == {"andThen", "map", "mapOr", "mapOrElse"}
CallOnNone == {"unwrapOrElse", "orElse", "okOrElse"}

\* What the function a lazy combinator had to call did: f(payload) on a Some
\* for CallOnSome, f() on None for CallOnNone, the default thunk of mapOrElse
\* on None.
Invoked ==
    IF last.op \in CallOnSome /\ heap[last.this].is
    THEN Call(last.f, <<heap[last.this].val>>)
    ELSE IF last.op = "mapOrElse" THEN Call(last.d, <<>>)
    ELSE Call(last.f, <<>>)

\* The result the claim gives each combinator on the short-circuit path.
ShortCircuited ==
    CASE last.op \in {"andThen", "map"} -> last.ret = Opt(None)
      [] last.op = "mapOr" -> last.ret = last.args[1]
      [] last.op = "unwrapOrElse" -> last.ret = heap[last.this].val
      [] last.op = "orElse" -> last.ret = Opt(last.this)
      [] last.op = "okOrElse" -> last.res = Ok(heap[last.this].val)

\* The result when the function was called and returned.
Determined ==
    CASE last.op = "map" -> IsSomeOf(last.ret, Invoked.val)
      [] last.op = "okOrElse" -> last.res = Err(Invoked.val)
      [] OTHER -> last.ret = Invoked.val

\* C8: on None, andThen(f), map(f), mapOr(d, f) and mapOrElse(d, f) never call
\* f; on Some, unwrapOrElse(f), orElse(f), okOrElse(f) and the default thunk of
\* mapOrElse are never called; on the opposite variant the function is called
\* exactly once and what it returns determines the result.
C8_Lazy ==
    last.op \in CallOnSome \cup CallOnNone =>
        /\ last.fcalls = (IF (last.op \in CallOnSome) = heap[last.this].is THEN 1 ELSE 0)
        /\ last.dcalls = (IF last.op = "mapOrElse" /\ ~heap[last.this].is THEN 1 ELSE 0)
        /\ IF last.fcalls + last.dcalls = 0
           THEN last.thrown = NoExc /\ ShortCircuited
           ELSE /\ last.fcalls + last.dcalls = 1
                /\ Invoked.threw => last.thrown = Thrown
                /\ ~Invoked.threw => last.thrown = NoExc /\ Determined

C8_Witness ==
    /\ last.op = "andThen"
    /\ last.this = None
    /\ last.f = Thrower(Obj(2))
    /\ last.fcalls = 0
    /\ last.ret = Opt(None)

\* C9: x.is(c) and x.eq(c) return a boolean without throwing for every c
\* (an Option, an object that is no Option, a primitive, null, undefined), and
\* return false whenever c is no Option.
C9_NeverThrow ==
    last.op \in {"is", "eq"} =>
        /\ last.thrown = NoExc
        /\ last.ret \in {Bool(TRUE), Bool(FALSE)}
        /\ ~InstanceOfOptionType(last.args[1]) => last.ret = Bool(FALSE)

\* C10: no step (a constructor, a combinator, an attempted write) changes the
\* discriminant or the payload of an instance that exists, and the None
\* singleton always has discriminant None.
InstancesKept ==
    \A i \in DOMAIN heap :
        /\ i \in DOMAIN heap'
        /\ heap'[i].is = heap[i].is
        /\ heap'[i].val = heap[i].val

C10_Immutable == [][InstancesKept]_vars /\ [](~heap[None].is)

C10_Witness ==
    /\ last.op = "write"
    /\ last.this # None
    /\ last.msg = "val"
    /\ last.args[1] = Obj(2)
    /\ last.thrown = NoExc
    /\ heap[last.this].val = Obj(1)

====
